---------------------------- MODULE Spec2Model ----------------------------
(***************************************************************************)
(* Uplink proxy client (packages/proxy/src/proxy.ts, class ProxyStorage).  *)
(*                                                                         *)
(* The model follows the per-uplink health state (failed_requests,         *)
(* last_request_time) through the two metadata entry points:               *)
(*   - getRemoteMetadataNext: promise path, built on got() with the        *)
(*     afterResponse / beforeRetry hooks and the 'request' event;          *)
(*   - getRemoteMetadata: callback path, built on request() and            *)
(*     _statusCheck.                                                       *)
(* and through the two tarball fetchers (fetchTarball, fetchTarballNext).  *)
(* Requests run concurrently in a bounded number of slots; each handler    *)
(* of the source is one action.                                            *)
(***************************************************************************)
EXTENDS Integers, Sequences, FiniteSets, TLC

(***************************************************************************)
(* Bounds of the model.                                                    *)
(***************************************************************************)
\* largest configured max_fails
MaxFails == 2
\* largest configured fail_timeout (in clock ticks)
MaxFailTimeout == 1
\* the clock runs from 0 to MaxTime
MaxTime == 2
\* calls of the entry points made during one behaviour
MaxCalls == 3
\* largest retry limit a caller passes in options.retry
MaxRetry == 2
\* metadata requests in flight at the same time
MaxInFlight == 2
\* the count of 'now offline' warnings saturates here
MaxLogs == 2
\* largest tarball body, and largest advertised Content-Length, in bytes
MaxBytes == 2
\* longest host name, longest no_proxy entry (characters), most entries
MaxHostLen == 3
MaxItemLen == 3
MaxNoProxy == 2
\* most elements of the 'objects' array of a search response
MaxObjects == 2

(***************************************************************************)
(* HTTP status codes used by the classification code.                      *)
(***************************************************************************)
HTTP_OK == 200
HTTP_MULTIPLE_CHOICES == 300
HTTP_NOT_MODIFIED == 304
HTTP_NOT_FOUND == 404
HTTP_BAD_REQUEST == 400

\* upstream status codes the environment answers with
StatusCodes == {200, 300, 304, 404, 500}
\* transport-level failures (no HTTP response)
TransportErrors == {"ETIMEDOUT"}

Slots == 1..MaxInFlight

\* last_request_time is never assigned by the constructor: it is undefined
\* until the first request is issued.  <<t>> is the timestamp t.
Undefined == << >>

Abs(x) == IF x < 0 THEN -x ELSE x

VARIABLES
    max_fails,          \* this.max_fails     (config, immutable)
    fail_timeout,       \* this.fail_timeout  (config, immutable)
    failed_requests,    \* this.failed_requests
    last_request_time,  \* this.last_request_time
    now,                \* Date.now()
    offline_logs,       \* 'host is now offline' warnings since the last success
    calls,              \* calls of the entry points made so far
    req,                \* the metadata requests in flight, by slot
    obs,                \* the preflight of the latest step, if it made one
    last,               \* the request the latest step completed, if any
    streak,             \* completed failing requests since the last non-failure
    tb,                 \* the tarball fetch
    agent,              \* this.agent is set (a proxy-bound agent)
    proxy,              \* this.proxy
    uplink,             \* this.config: auth, headers, proxy settings
    constructed,        \* the constructor has run
    hist,               \* the health updates made so far, and by which request
    sent,               \* the headers of the latest request built
    found               \* what the latest search() call gave

vars == << max_fails, fail_timeout, failed_requests, last_request_time, now,
           offline_logs, calls, req, obs, last, streak, tb,
           agent, proxy, uplink, constructed, hist, sent, found >>

health == << failed_requests, last_request_time, offline_logs >>
config == << max_fails, fail_timeout, agent, proxy, uplink, constructed >>
\* what the header builder and search() leave behind
built == << sent, found, hist >>
meta == << req, obs, last, streak >>

-----------------------------------------------------------------------------
(***************************************************************************)
(* Health tracker.                                                         *)
(***************************************************************************)

\* the comparison of the counter made strict
IfRequestFailure_Strict ==
    /\ failed_requests > max_fails
    /\ last_request_time # Undefined
    /\ Abs(now - last_request_time[1]) < fail_timeout

\* an unset last_request_time read as 0
IfRequestFailure_UnsetAsZero ==
    /\ failed_requests >= max_fails
    /\ Abs(now - (IF last_request_time = Undefined THEN 0
                  ELSE last_request_time[1])) < fail_timeout

\* _ifRequestFailure: Math.abs(Date.now() - undefined) is NaN, and NaN < x is
\* false, so an uplink that never issued a request is never reported offline.
IfRequestFailure ==
    /\ failed_requests >= max_fails
    /\ last_request_time # Undefined
    /\ Abs(now - last_request_time[1]) < fail_timeout

\* _statusCheck() called with no argument.
StatusCheckNoArg == IfRequestFailure = FALSE

\* _statusCheck(alive): the new failed_requests.
StatusCheckCounter(alive) == IF alive THEN 0 ELSE failed_requests + 1

\* _statusCheck(false) logs 'host is now offline' when the counter, after the
\* increment, equals max_fails.
StatusCheckLogsOffline(alive) ==
    /\ alive = FALSE
    /\ failed_requests + 1 = max_fails

Is2xx(code) == code >= HTTP_OK /\ code < HTTP_MULTIPLE_CHOICES

\* afterResponse hook of getRemoteMetadataNext: the new failed_requests.
AfterResponseCounter(code) ==
    IF Is2xx(code) /\ failed_requests >= max_fails THEN 0 ELSE failed_requests

\* beforeRetry hook of getRemoteMetadataNext: failed_requests = count ?? 0.
BeforeRetryCounter(count) == count

\* beforeRetry logs 'host is now offline' whenever the counter it just wrote
\* is at or above max_fails.
BeforeRetryLogsOffline(count) == BeforeRetryCounter(count) >= max_fails


-----------------------------------------------------------------------------
(***************************************************************************)
(* Outcomes and results of a metadata fetch.                               *)
(***************************************************************************)

\* the ETag header of a response: only a 200 is answered with a choice
ETags == {"", "abc"}
ETagsOf(s) == IF s = 200 THEN ETags ELSE {""}

\* what `await got(...)` / the request callback ends with
NoOutcome == [tag |-> "none", status |-> 0, code |-> "", etag |-> ""]
ResponseOutcome(s, e) == [tag |-> "response", status |-> s, code |-> "", etag |-> e]
HTTPErrorOutcome(s) == [tag |-> "HTTPError", status |-> s, code |-> "", etag |-> ""]
ErrorOutcome(c) == [tag |-> "error", status |-> 0, code |-> c, etag |-> ""]
\* an error made by the client itself, before any request
InternalError(c) == [tag |-> "internal", status |-> 0, code |-> c, etag |-> ""]

\* what the caller of the metadata fetch receives
\* kind is "Manifest" for a returned pair, otherwise the name of the error
NoResult == [kind |-> "none", remoteStatus |-> 0, etag |-> ""]
Failure(k) == [kind |-> k, remoteStatus |-> 0, etag |-> ""]
BadStatusCode(s) == [kind |-> "BadStatusCode", remoteStatus |-> s, etag |-> ""]
\* an error handed on as it was caught
Rethrown(c) == Failure(c)
Manifest(e) == [kind |-> "Manifest", remoteStatus |-> 0, etag |-> e]

\* got resolves the promise for 2xx and 304 (redirects are followed) and
\* throws HTTPError (code ERR_NON_2XX_3XX_RESPONSE) for every other status.
GotIsResponseOk(s) == Is2xx(s) \/ s = HTTP_NOT_MODIFIED

GotOutcome(s, e) ==
    IF GotIsResponseOk(s)
    THEN ResponseOutcome(s, IF Is2xx(s) THEN e ELSE "")
    ELSE HTTPErrorOutcome(s)

\* got may retry a failed attempt (options.retry: the caller's limit, status
\* codes and error codes); it never retries past the largest limit, and
\* never an attempt that ended with a response it resolves.
GotMayRetry(outcome, count) ==
    /\ count < MaxRetry
    /\ outcome.tag \in {"error", "HTTPError"}

\* the 304 check of the try block left out
MetadataNextResult_No304(outcome) ==
    CASE outcome.tag = "response" -> Manifest(outcome.etag)
      [] outcome.tag = "HTTPError" ->
            IF outcome.status = HTTP_NOT_FOUND
            THEN Failure("NotFoundUplink")
            ELSE BadStatusCode(outcome.status)
      [] OTHER -> Rethrown(outcome.code)

\* getRemoteMetadataNext after `await got`: the 304 check of the try block
\* and the classification of the catch block.
MetadataNextResult(outcome) ==
    CASE outcome.tag = "response" ->
            IF outcome.status = HTTP_NOT_MODIFIED
            THEN Failure("NotModifiedNoData")
            ELSE Manifest(outcome.etag)
      [] outcome.tag = "HTTPError" ->
            IF outcome.status = HTTP_NOT_FOUND
            THEN Failure("NotFoundUplink")
            ELSE IF ~Is2xx(outcome.status)
                 THEN BadStatusCode(outcome.status)
                 ELSE Rethrown("ERR_NON_2XX_3XX_RESPONSE")
      [] OTHER -> Rethrown(outcome.code)

\* every status below 400 taken for a success
MetadataCallbackResult_Below400(outcome) ==
    IF outcome.tag \in {"error", "internal"}
    THEN Rethrown(outcome.code)
    ELSE IF outcome.status = HTTP_NOT_FOUND
         THEN Failure("NotFoundUplink")
         ELSE IF outcome.status >= 400
              THEN BadStatusCode(outcome.status)
              ELSE Manifest(outcome.etag)

\* the callback getRemoteMetadata hands to request(): (err, res, body).
MetadataCallbackResult(outcome) ==
    IF outcome.tag \in {"error", "internal"}
    THEN Rethrown(outcome.code)
    ELSE IF outcome.status = HTTP_NOT_FOUND
         THEN Failure("NotFoundUplink")
         ELSE IF ~Is2xx(outcome.status)
              THEN BadStatusCode(outcome.status)
              ELSE Manifest(outcome.etag)

-----------------------------------------------------------------------------
(***************************************************************************)
(* Request slots and observations.                                         *)
(***************************************************************************)

\* a request in flight: count is got's retryCount, res the response the
\* callback path has received and whose body is still arriving.  alone says
\* that no other request was in flight since the call; probe is the time of
\* the call when the call was let through with the counter at max_fails
\* (the fail_timeout window had elapsed), and -1 otherwise.
IdleReq == [api |-> "none", pc |-> "idle", count |-> 0, statusCalled |-> FALSE,
            net |-> 0, res |-> NoOutcome, alone |-> FALSE, probe |-> -1]

\* a completed request: the outcome of its last attempt, what the caller
\* got, how often the caller's callback ran, how many HTTP requests went out
NoLast == [api |-> "none", final |-> NoOutcome, result |-> NoResult,
           cbs |-> 0, net |-> 0, alone |-> FALSE, probe |-> -1]
Completed(r, outcome, result, cbs) ==
    [api |-> r.api, final |-> outcome, result |-> result, cbs |-> cbs,
     net |-> r.net, alone |-> r.alone, probe |-> r.probe]

Free(i) == req[i].pc = "idle"
InFlight(i) == ~Free(i)

\* the tarball fetch.  What upstream did: status, cl (the Content-Length it
\* advertised, -1 for none), bytes (body bytes it delivered), transport (a
\* transport error hit the request).  The function's variables:
\* expected_length (-1 while unset), current_length.  The returned stream:
\* errors ('error' events emitted on it), errs (their names), written (body
\* bytes written to it), clev (Content-Length events), ended, destroyed.
\* abortedAt is the number of body bytes read when the caller aborted or
\* destroyed the returned stream, -1 while the caller has not.
NoTarball == [api |-> "none", pc |-> "idle", statusCalled |-> FALSE, net |-> 0,
              status |-> 0, cl |-> -1, bytes |-> 0, transport |-> FALSE,
              expected_length |-> -1, current_length |-> 0, piped |-> FALSE,
              errors |-> 0, errs |-> {}, written |-> 0, clev |-> 0,
              ended |-> FALSE, destroyed |-> FALSE, abortedAt |-> -1]

\* a new call takes the lowest free slot
Lowest(i) == Free(i) /\ \A j \in Slots : j < i => InFlight(j)

\* process.nextTick callbacks run before any I/O event is delivered
NoTick == tb.pc # "tick" /\ \A i \in Slots : req[i].pc # "tick"

\* an outcome that counts as a failed request: a 5xx answer or no answer
IsFailureOutcome(outcome) ==
    \/ outcome.tag = "error"
    \/ outcome.tag \in {"response", "HTTPError"} /\ outcome.status >= 500

Min(a, b) == IF a < b THEN a ELSE b

\* the streak starts with the call of its first request
StreakAtCall ==
    IF streak.n = 0 /\ \A j \in Slots : Free(j)
    THEN [n |-> 0, t0 |-> now]
    ELSE streak

StreakAfter(outcome) ==
    IF IsFailureOutcome(outcome)
    THEN [streak EXCEPT !.n = Min(@ + 1, MaxCalls)]
    ELSE [streak EXCEPT !.n = 0]

\* the offline condition as the health tracker is specified
OfflineCondition ==
    /\ failed_requests >= max_fails
    /\ last_request_time # Undefined
    /\ Abs(now - last_request_time[1]) < fail_timeout

\* max_fails consecutive requests have failed, one after the other, all of
\* them inside the current fail_timeout window
Tripped ==
    /\ max_fails >= 1
    /\ streak.n >= max_fails
    /\ now - streak.t0 < fail_timeout
    /\ \A j \in Slots : Free(j)

\* the counter is at max_fails and the fail_timeout window is over
WindowElapsed ==
    /\ max_fails >= 1
    /\ fail_timeout >= 1
    /\ failed_requests >= max_fails
    /\ last_request_time # Undefined
    /\ Abs(now - last_request_time[1]) >= fail_timeout

\* fresh: no request was ever issued by this client
Observe(api, rejected) ==
    [api |-> api, offline |-> OfflineCondition, rejected |-> rejected,
     tripped |-> Tripped, elapsed |-> WindowElapsed,
     fresh |-> last_request_time = Undefined]

NoObs == [api |-> "none", offline |-> FALSE, rejected |-> FALSE,
          tripped |-> FALSE, elapsed |-> FALSE, fresh |-> FALSE]

\* the slots after slot i took a new request r
Admit(i, r) ==
    LET quiet == \A j \in Slots : Free(j)
    IN  [j \in Slots |->
            IF j = i
            THEN [r EXCEPT !.alone = quiet,
                           !.probe = IF quiet /\ WindowElapsed THEN now ELSE -1]
            ELSE IF Free(j) THEN req[j] ELSE [req[j] EXCEPT !.alone = FALSE]]

-----------------------------------------------------------------------------
(***************************************************************************)
(* The clock.                                                              *)
(***************************************************************************)
Tick ==
    /\ NoTick
    /\ now < MaxTime
    /\ now' = now + 1
    /\ obs' = NoObs
    /\ last' = NoLast
    /\ UNCHANGED << config, built, health, calls, req, streak, tb >>

-----------------------------------------------------------------------------
(***************************************************************************)
(* getRemoteMetadataNext (promise path).                                   *)
(***************************************************************************)

\* the call: the preflight throws UplinkOffline, or got() is started
GetRemoteMetadataNext(i) ==
    /\ NoTick
    /\ Lowest(i)
    /\ calls < MaxCalls
    /\ calls' = calls + 1
    /\ obs' = Observe("next", IfRequestFailure)
    /\ IF IfRequestFailure
       THEN /\ last' = Completed([IdleReq EXCEPT !.api = "next"], NoOutcome,
                                 Failure("UplinkOffline"), 0)
            /\ UNCHANGED << req, streak >>
       ELSE /\ req' = Admit(i, [IdleReq EXCEPT !.api = "next", !.pc = "sending"])
            /\ streak' = StreakAtCall
            /\ last' = NoLast
    /\ UNCHANGED << config, built, health, now, tb >>

\* .on('request'): an attempt goes out on the wire
NextOnRequest(i) ==
    /\ NoTick
    /\ req[i].api = "next" /\ req[i].pc = "sending"
    /\ last_request_time' = << now >>
    /\ req' = [req EXCEPT ![i].pc = "waiting", ![i].net = @ + 1]
    /\ obs' = NoObs
    /\ last' = NoLast
    /\ UNCHANGED << config, built, failed_requests, offline_logs, now, calls, streak, tb >>

\* got retries the attempt that ended with outcome
NextRetry(i, outcome) ==
    /\ GotMayRetry(outcome, req[i].count)
    /\ req' = [req EXCEPT ![i].pc = "retrying"]
    /\ last' = NoLast
    /\ UNCHANGED streak

\* `await got` ends with outcome, and the function returns or throws
NextSettle(i, outcome) ==
    /\ req' = [req EXCEPT ![i] = IdleReq]
    /\ last' = Completed(req[i], outcome, MetadataNextResult(outcome), 0)
    /\ streak' = StreakAfter(outcome)

\* a response arrives: the afterResponse hook runs, then got retries or
\* settles
NextOnResponse(i, s, e) ==
    /\ NoTick
    /\ req[i].api = "next" /\ req[i].pc = "waiting"
    /\ failed_requests' = AfterResponseCounter(s)
    /\ offline_logs' = IF Is2xx(s) THEN 0 ELSE offline_logs
    /\ \/ NextRetry(i, GotOutcome(s, e))
       \/ NextSettle(i, GotOutcome(s, e))
    /\ obs' = NoObs
    /\ UNCHANGED << config, built, last_request_time, now, calls, tb >>

\* the attempt fails without a response
NextOnError(i, c) ==
    /\ NoTick
    /\ req[i].api = "next" /\ req[i].pc = "waiting"
    /\ \/ NextRetry(i, ErrorOutcome(c))
       \/ NextSettle(i, ErrorOutcome(c))
    /\ obs' = NoObs
    /\ UNCHANGED << config, built, health, now, calls, tb >>

\* the beforeRetry hook, with count = the number of this retry
NextBeforeRetry(i) ==
    /\ NoTick
    /\ req[i].api = "next" /\ req[i].pc = "retrying"
    /\ failed_requests' = BeforeRetryCounter(req[i].count + 1)
    /\ offline_logs' = IF BeforeRetryLogsOffline(req[i].count + 1)
                       THEN Min(offline_logs + 1, MaxLogs) ELSE offline_logs
    /\ req' = [req EXCEPT ![i].pc = "sending", ![i].count = @ + 1]
    /\ obs' = NoObs
    /\ last' = NoLast
    /\ UNCHANGED << config, built, last_request_time, now, calls, streak, tb >>

-----------------------------------------------------------------------------
(***************************************************************************)
(* getRemoteMetadata (callback path) on top of request().                  *)
(***************************************************************************)

\* _statusCheck(alive) called by the handlers without the statusCalled guard
StatusCheck_Unguarded(statusCalled, alive) ==
    /\ failed_requests' = StatusCheckCounter(alive)
    /\ offline_logs' = IF alive THEN 0
                       ELSE IF StatusCheckLogsOffline(alive)
                            THEN Min(offline_logs + 1, MaxLogs)
                            ELSE offline_logs
    /\ last_request_time' = << now >>

\* _statusCheck(alive), called by the 'response' and 'error' handlers of
\* request() behind the statusCalled guard
StatusCheck(statusCalled, alive) ==
    IF statusCalled
    THEN UNCHANGED health
    ELSE /\ failed_requests' = StatusCheckCounter(alive)
         /\ offline_logs' = IF alive THEN 0
                            ELSE IF StatusCheckLogsOffline(alive)
                                 THEN Min(offline_logs + 1, MaxLogs)
                                 ELSE offline_logs
         /\ last_request_time' = << now >>

\* the call: request() runs its preflight and either schedules the
\* UplinkOffline error on the next tick or issues the HTTP request
GetRemoteMetadata(i) ==
    /\ NoTick
    /\ Lowest(i)
    /\ calls < MaxCalls
    /\ calls' = calls + 1
    /\ obs' = Observe("cb", StatusCheckNoArg = FALSE)
    /\ IF StatusCheckNoArg = FALSE
       THEN /\ req' = [req EXCEPT ![i] =
                          [IdleReq EXCEPT !.api = "cb", !.pc = "tick"]]
            /\ UNCHANGED streak
       ELSE /\ req' = Admit(i, [IdleReq EXCEPT !.api = "cb", !.pc = "waiting",
                                                !.net = 1])
            /\ streak' = StreakAtCall
    /\ last' = NoLast
    /\ UNCHANGED << config, built, health, now, tb >>

\* process.nextTick of the offline branch: cb(UplinkOffline)
RequestNextTick(i) ==
    /\ req[i].api = "cb" /\ req[i].pc = "tick"
    /\ req' = [req EXCEPT ![i] = IdleReq]
    /\ last' = Completed(req[i], NoOutcome,
                   MetadataCallbackResult(InternalError("UplinkOffline")), 1)
    /\ obs' = NoObs
    /\ UNCHANGED << config, built, health, now, calls, streak, tb >>

\* req.on('response') with the status deciding what _statusCheck is told
RequestOnResponse_ByStatus(i, s, e) ==
    /\ NoTick
    /\ req[i].api = "cb" /\ req[i].pc = "waiting"
    /\ StatusCheck(req[i].statusCalled, Is2xx(s))
    /\ req' = [req EXCEPT ![i].pc = "responded", ![i].statusCalled = TRUE,
                          ![i].res = ResponseOutcome(s, IF Is2xx(s) THEN e ELSE "")]
    /\ obs' = NoObs
    /\ last' = NoLast
    /\ UNCHANGED << config, built, now, calls, streak, tb >>

\* req.on('response')
RequestOnResponse(i, s, e) ==
    /\ NoTick
    /\ req[i].api = "cb" /\ req[i].pc = "waiting"
    /\ StatusCheck(req[i].statusCalled, TRUE)
    /\ req' = [req EXCEPT ![i].pc = "responded", ![i].statusCalled = TRUE,
                          ![i].res = ResponseOutcome(s, IF Is2xx(s) THEN e ELSE "")]
    /\ obs' = NoObs
    /\ last' = NoLast
    /\ UNCHANGED << config, built, now, calls, streak, tb >>

\* the body is complete: requestCallback(null, res, body) decodes the body
\* of a status < 300 (options.json) and hands (err, res, body) to cb
RequestComplete(i, parses) ==
    /\ NoTick
    /\ req[i].api = "cb" /\ req[i].pc = "responded"
    /\ LET out == IF req[i].res.status < HTTP_MULTIPLE_CHOICES /\ ~parses
                  THEN ErrorOutcome("SyntaxError")
                  ELSE req[i].res
       IN  last' = Completed(req[i], req[i].res, MetadataCallbackResult(out), 1)
    /\ req' = [req EXCEPT ![i] = IdleReq]
    /\ streak' = StreakAfter(req[i].res)
    /\ obs' = NoObs
    /\ UNCHANGED << config, built, health, now, calls, tb >>

\* req.on('error'), before or after the response; requestCallback(err)
RequestOnError(i, c) ==
    /\ NoTick
    /\ req[i].api = "cb" /\ req[i].pc \in {"waiting", "responded"}
    /\ StatusCheck(req[i].statusCalled, FALSE)
    /\ req' = [req EXCEPT ![i] = IdleReq]
    /\ last' = Completed(req[i], ErrorOutcome(c),
                         MetadataCallbackResult(ErrorOutcome(c)), 1)
    /\ streak' = StreakAfter(ErrorOutcome(c))
    /\ obs' = NoObs
    /\ UNCHANGED << config, built, now, calls, tb >>

-----------------------------------------------------------------------------
(***************************************************************************)
(* Header builder.  A header set maps every header name to its value; a    *)
(* value is the list of the comma-separated elements of the header, so     *)
(* that a + ', ' + b is the concatenation of the lists a and b.  The empty *)
(* list stands for a header that is absent or empty: the two cases the     *)
(* source's truthiness tests do not tell apart.  Header names are compared *)
(* as HTTP compares them, without case.                                    *)
(***************************************************************************)
HeaderNames == {"accept", "accept-encoding", "user-agent", "authorization",
                "x-forwarded-for", "via", "if-none-match"}
NoValue == << >>
NoHeaders == [h \in HeaderNames |-> NoValue]

\* a || b on header values
Or(a, b) == IF a # NoValue THEN a ELSE b

contentTypeAccept == << "application/json;" >>
\* '1.1 ' + this.server_id + ' (Verdaccio)'
ViaSelf == << "1.1 server_id (Verdaccio)" >>
\* buildToken(type, token)
BuiltToken == << "Basic token" >>

\* this.config.auth: absent; with a token that resolves; with none that does
AuthConfigs == {"none", "token", "token_required"}

\* this.config.headers, as the set of its <<name, value>> entries
UplinkHeaderSets ==
    { {},
      { << "accept", << "application/vnd.npm.install-v2+json" >> >> },
      { << "via", << "1.1 upstream" >> >> },
      { << "x-forwarded-for", << "203.0.113.9" >> >> },
      { << "authorization", << "Basic configured" >> >> },
      { << "if-none-match", << "W/configured" >> >> } }

\* options.headers of the promise entry points
CallerHeaderSets ==
    { [NoHeaders EXCEPT !["accept"] = a, !["authorization"] = z,
                        !["via"] = v, !["x-forwarded-for"] = x] :
        a \in {NoValue, << "text/plain" >>},
        z \in {NoValue, << "Bearer caller" >>},
        v \in {NoValue, << "1.0 fred" >>},
        x \in {NoValue, << "192.0.2.1" >>} }

\* options.remoteAddress (undefined or an address)
RemoteAddresses == {NoValue, << "10.0.0.1" >>}
\* options.etag (nil or an etag)
ETagOptions == {NoValue, << "abc" >>}

\* options.req of request(): undefined, or the incoming request with its
\* Via and X-Forwarded-For headers and its connection.remoteAddress
NoReq == [present |-> FALSE, via |-> NoValue, xff |-> NoValue,
          remoteAddress |-> NoValue]
Reqs ==
    {NoReq} \cup
    [present : {TRUE}, via : {NoValue, << "1.0 fred" >>},
     xff : {NoValue, << "192.0.2.1" >>}, remoteAddress : {<< "10.0.0.1" >>}]

\* the first three assignments of getHeadersNext and of _setHeaders
DefaultHeaders(headers) ==
    [headers EXCEPT !["accept"] = Or(@, contentTypeAccept),
                    !["accept-encoding"] = Or(@, << "gzip" >>),
                    !["user-agent"] = Or(@, << "npm (user_agent)" >>)]

\* setAuthNext / _setAuth throw (token_required): no token resolves
AuthThrows(headers) ==
    /\ uplink.auth = "token_required"
    /\ headers["authorization"] = NoValue

\* the auth step always injecting
SetAuthNext_Always(headers) ==
    IF uplink.auth = "none"
    THEN headers
    ELSE [headers EXCEPT !["authorization"] = BuiltToken]

\* setAuthNext
SetAuthNext(headers) ==
    IF uplink.auth = "none" \/ headers["authorization"] # NoValue
    THEN headers
    ELSE [headers EXCEPT !["authorization"] = BuiltToken]

\* _setAuth
SetAuth(headers) ==
    IF uplink.auth = "none" \/ headers["authorization"] # NoValue
    THEN headers
    ELSE [headers EXCEPT !["authorization"] = BuiltToken]

getHeadersNext(headers) == SetAuthNext(DefaultHeaders(headers))
SetHeaders(headers) == SetAuth(DefaultHeaders(headers))

\* '' + remoteAddress: an undefined address becomes the text 'undefined'
AddressText(remoteAddress) ==
    IF remoteAddress = NoValue THEN << "undefined" >> ELSE remoteAddress

\* addProxyHeadersNext
addProxyHeadersNext(headers, remoteAddress) ==
    LET forwarded ==
            IF ~agent
            THEN [headers EXCEPT !["x-forwarded-for"] =
                                     @ \o AddressText(remoteAddress)]
            ELSE headers
    IN  [forwarded EXCEPT !["via"] = @ \o ViaSelf]

\* _addProxyHeaders
AddProxyHeaders(r, headers) ==
    LET forwarded ==
            IF r.present /\ ~agent
            THEN [headers EXCEPT !["x-forwarded-for"] =
                                     r.xff \o AddressText(r.remoteAddress)]
            ELSE headers
    IN  [forwarded EXCEPT !["via"] = r.via \o ViaSelf]

\* applyUplinkHeaders
applyUplinkHeaders(headers) ==
    [h \in HeaderNames |->
        IF \E e \in uplink.headers : e[1] = h
        THEN (CHOOSE e \in uplink.headers : e[1] = h)[2]
        ELSE headers[h]]

\* _overrideWithUpLinkConfLocaligHeaders
OverrideWithUpLinkConfLocaligHeaders(headers) ==
    [h \in HeaderNames |->
        IF \E e \in uplink.headers : e[1] = h
        THEN (CHOOSE e \in uplink.headers : e[1] = h)[2]
        ELSE headers[h]]

\* `the following headers cannot be overwritten`
ConditionalHeaders(headers, etag) ==
    IF etag # NoValue
    THEN [headers EXCEPT !["if-none-match"] = etag,
                         !["accept"] = contentTypeAccept]
    ELSE headers

\* the headers getRemoteMetadataNext and fetchTarballNext hand to got
HeadersNext(callerHeaders, remoteAddress, etag) ==
    ConditionalHeaders(
        applyUplinkHeaders(
            addProxyHeadersNext(getHeadersNext(callerHeaders), remoteAddress)),
        etag)

\* the headers request() hands to the HTTP library
RequestHeaders(optionsHeaders, r) ==
    OverrideWithUpLinkConfLocaligHeaders(
        AddProxyHeaders(r, SetHeaders(optionsHeaders)))

\* options.headers as getRemoteMetadata makes them
GetRemoteMetadataOptionsHeaders(etag) ==
    IF etag # NoValue
    THEN [NoHeaders EXCEPT !["if-none-match"] = etag,
                           !["accept"] = contentTypeAccept]
    ELSE NoHeaders

\* options.headers as fetchTarball makes them
FetchTarballOptionsHeaders == [NoHeaders EXCEPT !["accept"] = contentTypeAccept]

\* no health update made yet: owner is the number of the call that holds
\* each slot (0 for none), log the updates in the order they were made
NoHist == [owner |-> [i \in Slots |-> 0], log |-> << >>]

\* config.http_proxy / config.https_proxy when set
ProxyURL == << "http://corp:8080" >>

\* the latest request built: who built it, what came in (the caller's
\* headers, the incoming Via, the etag option), the header set after the
\* auth step, the header set sent; error is set when the builder threw
NoSent == [api |-> "none", caller |-> NoHeaders, via_in |-> NoValue,
           etag |-> NoValue, base |-> NoHeaders, headers |-> NoHeaders,
           error |-> ""]

DefaultUplink == [auth |-> "none", headers |-> {}, hostname |-> << "a" >>,
                  no_proxy |-> << >>, http_proxy |-> Undefined]

NoFound == [pc |-> "idle", status |-> 0, objects |-> << >>, error |-> "",
            queue |-> << >>, yielded |-> << >>, ended |-> FALSE,
            body |-> "none", returned |-> FALSE]

-----------------------------------------------------------------------------
(***************************************************************************)
(* The uplink client with its metadata requests.                           *)
(***************************************************************************)
Init ==
    /\ max_fails \in 0..MaxFails
    /\ fail_timeout \in 0..MaxFailTimeout
    /\ failed_requests = 0
    /\ last_request_time = Undefined
    /\ now = 0
    /\ offline_logs = 0
    /\ calls = 0
    /\ req = [i \in Slots |-> IdleReq]
    /\ obs = NoObs
    /\ last = NoLast
    /\ streak = [n |-> 0, t0 |-> 0]
    /\ tb = NoTarball
    /\ agent = FALSE
    /\ proxy = Undefined
    /\ uplink = DefaultUplink
    /\ constructed = TRUE
    /\ sent = NoSent
    /\ found = NoFound
    /\ hist = NoHist

Next ==
    \/ Tick
    \/ \E i \in Slots : GetRemoteMetadataNext(i)
    \/ \E i \in Slots : NextOnRequest(i)
    \/ \E i \in Slots, s \in StatusCodes : \E e \in ETagsOf(s) : NextOnResponse(i, s, e)
    \/ \E i \in Slots, c \in TransportErrors : NextOnError(i, c)
    \/ \E i \in Slots : NextBeforeRetry(i)
    \/ \E i \in Slots : GetRemoteMetadata(i)
    \/ \E i \in Slots : RequestNextTick(i)
    \/ \E i \in Slots, s \in StatusCodes : \E e \in ETagsOf(s) : RequestOnResponse(i, s, e)
    \/ \E i \in Slots, parses \in BOOLEAN : RequestComplete(i, parses)
    \/ \E i \in Slots, c \in TransportErrors : RequestOnError(i, c)

Spec == Init /\ [][Next]_vars

-----------------------------------------------------------------------------
(***************************************************************************)
(* fetchTarball (on request()) and fetchTarballNext (on got.stream).       *)
(***************************************************************************)

\* stream.emit('error', name) on the returned stream
EmitError(t, name) == [t EXCEPT !.errors = @ + 1, !.errs = @ \cup {name}]

\* a 304 response carries no body (the HTTP parser reads none)
HasBody(s) == s # HTTP_NOT_MODIFIED

\* the 'response' handler with the pipe attached before the status checks
TarballResponse_PipeFirst(t, s, cl, pipes) ==
    LET p == [t EXCEPT !.piped = @ \/ pipes]
    IN  IF s = HTTP_NOT_FOUND
        THEN EmitError(p, "NotFileUplink")
        ELSE IF ~Is2xx(s)
             THEN EmitError(p, "BadStatusCode")
             ELSE [p EXCEPT !.expected_length = IF cl # -1 THEN cl ELSE @,
                            !.clev = IF cl # -1 THEN @ + 1 ELSE @]

\* the 'response' handler both fetchers install: 404, then any other
\* non-2xx status, then the Content-Length header; only fetchTarball pipes
\* here, after the checks
TarballResponse(t, s, cl, pipes) ==
    IF s = HTTP_NOT_FOUND
    THEN EmitError(t, "NotFileUplink")
    ELSE IF ~Is2xx(s)
         THEN EmitError(t, "BadStatusCode")
         ELSE [t EXCEPT !.expected_length = IF cl # -1 THEN cl ELSE @,
                        !.clev = IF cl # -1 THEN @ + 1 ELSE @,
                        !.piped = @ \/ pipes]

\* fetchTarball's 'end' handler: the content-length check
TarballEnd(t) ==
    IF t.expected_length # -1 /\ t.current_length # t.expected_length
    THEN EmitError(t, "ContentMismatch")
    ELSE t

TarballIdle == tb.pc \in {"idle", "done"}

\* fetchTarball(url): request() without callback, preflight included
FetchTarball ==
    /\ NoTick
    /\ TarballIdle
    /\ calls < MaxCalls
    /\ calls' = calls + 1
    /\ tb' = IF StatusCheckNoArg = FALSE
             THEN [NoTarball EXCEPT !.api = "cb", !.pc = "tick"]
             ELSE [NoTarball EXCEPT !.api = "cb", !.pc = "waiting", !.net = 1]
    /\ UNCHANGED << config, built, health, now, meta >>

\* process.nextTick of request()'s offline branch: the stream request()
\* returned emits UplinkOffline, which fetchTarball's 'error' handler
\* forwards
TarballNextTick ==
    /\ tb.api = "cb" /\ tb.pc = "tick"
    /\ tb' = [EmitError(tb, "UplinkOffline") EXCEPT !.pc = "done"]
    /\ UNCHANGED << config, built, health, now, calls, meta >>

\* 'response': request()'s handler (_statusCheck(true)), then fetchTarball's
TarballOnResponse(s, cl) ==
    /\ NoTick
    /\ tb.api = "cb" /\ tb.pc = "waiting"
    /\ StatusCheck(tb.statusCalled, TRUE)
    /\ tb' = [TarballResponse(tb, s, cl, TRUE) EXCEPT
                 !.pc = "streaming", !.statusCalled = TRUE,
                 !.status = s, !.cl = cl]
    /\ UNCHANGED << config, built, now, calls, meta >>

\* 'data': a body byte; it reaches the returned stream once piped
TarballOnData ==
    /\ NoTick
    /\ tb.api = "cb" /\ tb.pc = "streaming"
    /\ HasBody(tb.status)
    /\ tb.bytes < MaxBytes
    /\ tb' = [tb EXCEPT !.bytes = @ + 1, !.current_length = @ + 1,
                        !.written = IF tb.piped /\ ~tb.destroyed
                                    THEN @ + 1 ELSE @]
    /\ UNCHANGED << config, built, health, now, calls, meta >>

\* 'end'
TarballOnEnd ==
    /\ NoTick
    /\ tb.api = "cb" /\ tb.pc = "streaming"
    /\ tb' = [TarballEnd(tb) EXCEPT !.pc = "done",
                                    !.ended = tb.piped /\ ~tb.destroyed]
    /\ UNCHANGED << config, built, health, now, calls, meta >>

\* 'error', before or after the response: request()'s handler
\* (_statusCheck(false)), then fetchTarball's, which forwards the error
TarballOnError(c) ==
    /\ NoTick
    /\ tb.api = "cb" /\ tb.pc \in {"waiting", "streaming"}
    /\ StatusCheck(tb.statusCalled, FALSE)
    /\ tb' = [EmitError(tb, c) EXCEPT !.pc = "done", !.statusCalled = TRUE,
                                      !.transport = TRUE]
    /\ UNCHANGED << config, built, now, calls, meta >>

\* the caller cancels a fetchTarball in flight: stream.abort() runs the
\* function fetchTarball assigned (an empty one), stream.destroy() destroys
\* the returned stream only; neither touches readStream, whose 'data'
\* listener keeps it flowing
TarballAbort(destroy) ==
    /\ NoTick
    /\ tb.api = "cb" /\ tb.pc \in {"waiting", "streaming"}
    /\ tb.abortedAt = -1
    /\ tb' = [tb EXCEPT !.abortedAt = tb.bytes,
                        !.destroyed = @ \/ destroy]
    /\ UNCHANGED << config, built, health, now, calls, meta >>

\* fetchTarballNext(url, options): no preflight; the promise resolves with
\* fetchStream at once
FetchTarballNext ==
    /\ NoTick
    /\ TarballIdle
    /\ calls < MaxCalls
    /\ calls' = calls + 1
    /\ tb' = [NoTarball EXCEPT !.api = "next", !.pc = "sending"]
    /\ UNCHANGED << config, built, health, now, meta >>

\* 'request': pipeline(readStream, fetchStream) starts
TarballNextOnRequest ==
    /\ NoTick
    /\ tb.api = "next" /\ tb.pc = "sending"
    /\ tb' = [tb EXCEPT !.pc = "waiting", !.net = 1, !.piped = TRUE]
    /\ UNCHANGED << config, built, health, now, calls, meta >>

\* upstream answers.  got.stream emits 'response' for a status it accepts;
\* for any other it fails readStream with HTTPError, and the pipeline
\* destroys fetchStream with that error
TarballNextOnResponse(s, cl) ==
    /\ NoTick
    /\ tb.api = "next" /\ tb.pc = "waiting"
    /\ tb' = IF GotIsResponseOk(s)
             THEN [TarballResponse(tb, s, cl, FALSE) EXCEPT
                      !.pc = "streaming", !.status = s, !.cl = cl]
             ELSE [EmitError(tb, "HTTPError") EXCEPT
                      !.pc = "done", !.status = s, !.cl = cl]
    /\ UNCHANGED << config, built, health, now, calls, meta >>

\* a body byte goes through the pipeline
TarballNextOnData ==
    /\ NoTick
    /\ tb.api = "next" /\ tb.pc = "streaming"
    /\ HasBody(tb.status)
    /\ tb.bytes < MaxBytes
    /\ tb' = [tb EXCEPT !.bytes = @ + 1, !.written = @ + 1]
    /\ UNCHANGED << config, built, health, now, calls, meta >>

\* the body ends: the pipeline ends fetchStream
TarballNextOnEnd ==
    /\ NoTick
    /\ tb.api = "next" /\ tb.pc = "streaming"
    /\ tb' = [tb EXCEPT !.pc = "done", !.ended = TRUE]
    /\ UNCHANGED << config, built, health, now, calls, meta >>

\* readStream fails: the pipeline destroys fetchStream with the error
TarballNextOnError(c) ==
    /\ NoTick
    /\ tb.api = "next" /\ tb.pc \in {"waiting", "streaming"}
    /\ tb' = [EmitError(tb, c) EXCEPT !.pc = "done", !.transport = TRUE]
    /\ UNCHANGED << config, built, health, now, calls, meta >>

ContentLengths == -1..MaxBytes

TarballStep ==
    \/ Tick
    \/ FetchTarball
    \/ TarballNextTick
    \/ \E s \in StatusCodes, cl \in ContentLengths : TarballOnResponse(s, cl)
    \/ TarballOnData
    \/ TarballOnEnd
    \/ \E c \in TransportErrors : TarballOnError(c)
    \/ \E destroy \in BOOLEAN : TarballAbort(destroy)
    \/ FetchTarballNext
    \/ TarballNextOnRequest
    \/ \E s \in StatusCodes, cl \in ContentLengths : TarballNextOnResponse(s, cl)
    \/ TarballNextOnData
    \/ TarballNextOnEnd
    \/ \E c \in TransportErrors : TarballNextOnError(c)

SpecTarball == Init /\ [][TarballStep]_vars

-----------------------------------------------------------------------------
(***************************************************************************)
(* The requests the four fetchers build (their header-building statements) *)
(* for every uplink configuration.                                         *)
(***************************************************************************)

\* everything but the request built stays as constructed
HeadersOnly ==
    UNCHANGED << config, health, now, calls, meta, tb, found, hist >>

BuiltNext(api, callerHeaders, remoteAddress, etag) ==
    IF AuthThrows(DefaultHeaders(callerHeaders))
    THEN [NoSent EXCEPT !.api = api, !.caller = callerHeaders,
                        !.via_in = callerHeaders["via"], !.etag = etag,
                        !.error = "token_required"]
    ELSE [api |-> api, caller |-> callerHeaders,
          via_in |-> callerHeaders["via"], etag |-> etag,
          base |-> getHeadersNext(callerHeaders),
          headers |-> HeadersNext(callerHeaders, remoteAddress, etag),
          error |-> ""]

BuiltRequest(api, optionsHeaders, r, etag) ==
    IF AuthThrows(DefaultHeaders(optionsHeaders))
    THEN [NoSent EXCEPT !.api = api, !.via_in = r.via, !.etag = etag,
                        !.error = "token_required"]
    ELSE [api |-> api, caller |-> NoHeaders, via_in |-> r.via, etag |-> etag,
          base |-> SetHeaders(optionsHeaders),
          headers |-> RequestHeaders(optionsHeaders, r),
          error |-> ""]

\* getRemoteMetadataNext builds its headers
HeadersGetRemoteMetadataNext ==
    /\ \E h \in CallerHeaderSets, ra \in RemoteAddresses, e \in ETagOptions :
          sent' = BuiltNext("getRemoteMetadataNext", h, ra, e)
    /\ HeadersOnly

\* fetchTarballNext builds its headers
HeadersFetchTarballNext ==
    /\ \E h \in CallerHeaderSets, ra \in RemoteAddresses, e \in ETagOptions :
          sent' = BuiltNext("fetchTarballNext", h, ra, e)
    /\ HeadersOnly

\* getRemoteMetadata: request() builds the headers
HeadersGetRemoteMetadata ==
    /\ \E r \in Reqs, e \in ETagOptions :
          sent' = BuiltRequest("getRemoteMetadata",
                               GetRemoteMetadataOptionsHeaders(e), r, e)
    /\ HeadersOnly

\* fetchTarball: request() builds the headers
HeadersFetchTarball ==
    /\ sent' = BuiltRequest("fetchTarball", FetchTarballOptionsHeaders,
                            NoReq, NoValue)
    /\ HeadersOnly

InitHeaders ==
    /\ max_fails = MaxFails
    /\ fail_timeout = MaxFailTimeout
    /\ failed_requests = 0
    /\ last_request_time = Undefined
    /\ now = 0
    /\ offline_logs = 0
    /\ calls = 0
    /\ req = [i \in Slots |-> IdleReq]
    /\ obs = NoObs
    /\ last = NoLast
    /\ streak = [n |-> 0, t0 |-> 0]
    /\ tb = NoTarball
    /\ agent \in BOOLEAN
    /\ proxy = IF agent THEN ProxyURL ELSE Undefined
    /\ uplink \in [auth : AuthConfigs, headers : UplinkHeaderSets,
                   hostname : {<< "a" >>}, no_proxy : {<< >>},
                   http_proxy : {proxy}]
    /\ constructed = TRUE
    /\ sent = NoSent
    /\ found = NoFound
    /\ hist = NoHist

NextHeaders ==
    \/ HeadersGetRemoteMetadataNext
    \/ HeadersFetchTarballNext
    \/ HeadersGetRemoteMetadata
    \/ HeadersFetchTarball

SpecHeaders == InitHeaders /\ [][NextHeaders]_vars

-----------------------------------------------------------------------------
(***************************************************************************)
(* Proxy selector (_setupProxy), run by the constructor.  Host names and   *)
(* no_proxy entries are strings, modelled as sequences of characters.      *)
(***************************************************************************)
Chars == {".", "a", "b"}

\* the strings over Chars of length lo..hi
Strings(lo, hi) == UNION { [1..n -> Chars] : n \in lo..hi }

\* this.url.hostname
Hostnames == Strings(1, MaxHostLen)
\* no_proxy, as the array of its entries
NoProxyLists == UNION { [1..n -> Strings(1, MaxItemLen)] : n \in 0..MaxNoProxy }

\* String.prototype.lastIndexOf: the last 0-based index at which item occurs
\* in str, or -1
LastIndexOf(str, item) ==
    LET at == { i \in 0..(Len(str) - Len(item)) :
                    SubSeq(str, i + 1, i + Len(item)) = item }
    IN  IF at = {} THEN -1 ELSE CHOOSE i \in at : \A j \in at : j <= i

\* if (x[0] !== '.') x = '.' + x
DotNormalised(x) == IF x # << >> /\ x[1] = "." THEN x ELSE << "." >> \o x

\* the test of the no_proxy loop
NoProxyMatches(hostname, noProxyItem) ==
    LastIndexOf(hostname, noProxyItem) = Len(hostname) - Len(noProxyItem)

\* the no_proxy loop from entry i on: the first matching entry clears the
\* proxy and ends the loop
RECURSIVE NoProxyLoop(_, _, _, _)
NoProxyLoop(hostname, noProxyList, i, p) ==
    IF i > Len(noProxyList)
    THEN p
    ELSE IF NoProxyMatches(hostname, DotNormalised(noProxyList[i]))
         THEN Undefined
         ELSE NoProxyLoop(hostname, noProxyList, i + 1, p)

\* _setupProxy: the value of this.proxy it leaves
SetupProxy(hostname, conf) ==
    NoProxyLoop(DotNormalised(hostname), conf.no_proxy, 1, conf.http_proxy)

\* the constructor: _setupProxy, then the proxy-bound agent
Construct ==
    /\ ~constructed
    /\ constructed' = TRUE
    /\ proxy' = SetupProxy(uplink.hostname, uplink)
    /\ agent' = (proxy' # Undefined)
    /\ UNCHANGED << max_fails, fail_timeout, uplink, built, health, now, calls,
                    meta, tb >>

InitProxy ==
    /\ max_fails = MaxFails
    /\ fail_timeout = MaxFailTimeout
    /\ failed_requests = 0
    /\ last_request_time = Undefined
    /\ now = 0
    /\ offline_logs = 0
    /\ calls = 0
    /\ req = [i \in Slots |-> IdleReq]
    /\ obs = NoObs
    /\ last = NoLast
    /\ streak = [n |-> 0, t0 |-> 0]
    /\ tb = NoTarball
    /\ agent = FALSE
    /\ proxy = Undefined
    /\ uplink \in [auth : {"none"}, headers : {{}}, hostname : Hostnames,
                   no_proxy : NoProxyLists, http_proxy : {Undefined, ProxyURL}]
    /\ constructed = FALSE
    /\ sent = NoSent
    /\ found = NoFound
    /\ hist = NoHist

NextProxy == Construct

SpecProxy == InitProxy /\ [][NextProxy]_vars

-----------------------------------------------------------------------------
(***************************************************************************)
(* Search streamer (search).  A JSON value is a record: an object carries  *)
(* an id, an array carries its items.                                      *)
(***************************************************************************)
JsonObject(id) == [kind |-> "object", id |-> id, items |-> << >>]
JsonArray(items) == [kind |-> "array", id |-> "", items |-> items]

\* the 'objects' arrays a search response body may carry
SearchObjects ==
    UNION { [1..n -> {JsonObject("pkg1"), JsonObject("pkg2")}] : n \in 0..MaxObjects }

SearchStatuses == {HTTP_OK, HTTP_BAD_REQUEST, HTTP_NOT_FOUND, 500}

\* JSONStream.parse('objects') over the body {objects, total, date}: the path
\* has the one key 'objects', and the parser emits the value found at the
\* path, so the array is emitted whole, as one element; 'total' and 'date' do
\* not match the path
JSONStreamParseObjects(objects) == << JsonArray(objects) >>

SearchOnly == UNCHANGED << config, health, now, calls, meta, tb, sent, hist >>

\* search(): no preflight, no headers; the request is issued
Search ==
    /\ found.pc = "idle"
    /\ found' = [NoFound EXCEPT !.pc = "fetching"]
    /\ SearchOnly

\* await undiciFetch(...) resolves with the response headers: a status of
\* 400 or above throws, for any other the body is awaited
SearchOnResponse(status) ==
    /\ found.pc = "fetching"
    /\ found' =
         IF status >= HTTP_BAD_REQUEST
         THEN [found EXCEPT !.pc = "failed", !.status = status,
                            !.body = "headers", !.error = "BadStatusCode"]
         ELSE [found EXCEPT !.pc = "reading", !.status = status,
                            !.body = "headers"]
    /\ SearchOnly

\* await response.text() resolves with the whole body: the text is piped
\* through the parser into streamSearch, which search() returns
SearchOnText(objects) ==
    /\ found.pc = "reading"
    /\ found' = [found EXCEPT !.pc = "streaming", !.body = "complete",
                              !.returned = TRUE,
                              !.objects = objects,
                              !.queue = JSONStreamParseObjects(objects)]
    /\ SearchOnly

\* await undiciFetch(...) rejects: the error is logged and thrown again
SearchOnError(e) ==
    /\ found.pc = "fetching"
    /\ found' = [found EXCEPT !.pc = "failed", !.error = e]
    /\ SearchOnly

\* streamSearch 'data'
SearchOnData ==
    /\ found.pc = "streaming"
    /\ found.queue # << >>
    /\ found' = [found EXCEPT !.yielded = Append(@, Head(found.queue)),
                              !.queue = Tail(@)]
    /\ SearchOnly

\* streamSearch 'end' (pipe with end: true)
SearchOnEnd ==
    /\ found.pc = "streaming"
    /\ found.queue = << >>
    /\ found' = [found EXCEPT !.pc = "done", !.ended = TRUE]
    /\ SearchOnly

\* the health tracker in any state earlier metadata requests may have left
InitSearch ==
    /\ max_fails = MaxFails
    /\ fail_timeout = MaxFailTimeout
    /\ failed_requests \in 0..MaxFails
    /\ now \in 0..MaxTime
    /\ last_request_time \in {Undefined} \cup { << t >> : t \in 0..now }
    /\ (last_request_time = Undefined => failed_requests = 0)
    /\ offline_logs = 0
    /\ calls = 0
    /\ req = [i \in Slots |-> IdleReq]
    /\ obs = NoObs
    /\ last = NoLast
    /\ streak = [n |-> 0, t0 |-> 0]
    /\ tb = NoTarball
    /\ agent = FALSE
    /\ proxy = Undefined
    /\ uplink = DefaultUplink
    /\ constructed = TRUE
    /\ sent = NoSent
    /\ found = NoFound
    /\ hist = NoHist

NextSearch ==
    \/ Search
    \/ \E status \in SearchStatuses : SearchOnResponse(status)
    \/ \E objects \in SearchObjects : SearchOnText(objects)
    \/ \E e \in TransportErrors : SearchOnError(e)
    \/ SearchOnData
    \/ SearchOnEnd

SpecSearch == InitSearch /\ [][NextSearch]_vars

-----------------------------------------------------------------------------
(***************************************************************************)
(* The health updates of concurrent metadata requests.  The handlers are   *)
(* those of the two metadata paths, reduced to what they do to the health  *)
(* state; every update is logged with the call that made it.  fail_timeout *)
(* is 0, so that the preflight lets every call through.                    *)
(***************************************************************************)
Logged(i, update, count) ==
    [hist EXCEPT !.log = Append(@, [id |-> hist.owner[i], update |-> update,
                                     count |-> count])]

\* getRemoteMetadataNext is called: preflight, then got() is started
ConcurrentGetRemoteMetadataNext(i) ==
    /\ Lowest(i)
    /\ calls < MaxCalls
    /\ ~IfRequestFailure
    /\ calls' = calls + 1
    /\ req' = [req EXCEPT ![i] = [IdleReq EXCEPT !.api = "next", !.pc = "sending"]]
    /\ hist' = [hist EXCEPT !.owner[i] = calls + 1]
    /\ UNCHANGED << config, sent, found, health, now, obs, last, streak, tb >>

\* .on('request')
ConcurrentNextOnRequest(i) ==
    /\ req[i].api = "next" /\ req[i].pc = "sending"
    /\ last_request_time' = << now >>
    /\ req' = [req EXCEPT ![i].pc = "waiting"]
    /\ UNCHANGED << config, built, failed_requests, offline_logs, now, calls,
                    obs, last, streak, tb >>

\* a response arrives: the afterResponse hook, then got retries or settles;
\* the hook leaves the counter alone unless the status is 2xx, and only
\* then is it logged
ConcurrentNextOnResponse(i, s) ==
    /\ req[i].api = "next" /\ req[i].pc = "waiting"
    /\ failed_requests' = AfterResponseCounter(s)
    /\ offline_logs' = IF Is2xx(s) THEN 0 ELSE offline_logs
    /\ hist' = IF Is2xx(s) THEN Logged(i, "afterResponse(2xx)", 0) ELSE hist
    /\ \/ /\ GotMayRetry(GotOutcome(s, ""), req[i].count)
          /\ req' = [req EXCEPT ![i].pc = "retrying"]
       \/ req' = [req EXCEPT ![i] = IdleReq]
    /\ UNCHANGED << config, sent, found, last_request_time, now, calls,
                    obs, last, streak, tb >>

\* the attempt fails without a response: got retries or settles
ConcurrentNextOnError(i, c) ==
    /\ req[i].api = "next" /\ req[i].pc = "waiting"
    /\ \/ /\ GotMayRetry(ErrorOutcome(c), req[i].count)
          /\ req' = [req EXCEPT ![i].pc = "retrying"]
       \/ req' = [req EXCEPT ![i] = IdleReq]
    /\ UNCHANGED << config, built, health, now, calls, obs, last, streak, tb >>

\* the beforeRetry hook, with count = the number of this retry
ConcurrentNextBeforeRetry(i) ==
    /\ req[i].api = "next" /\ req[i].pc = "retrying"
    /\ failed_requests' = BeforeRetryCounter(req[i].count + 1)
    /\ offline_logs' = IF BeforeRetryLogsOffline(req[i].count + 1)
                       THEN Min(offline_logs + 1, MaxLogs) ELSE offline_logs
    /\ hist' = Logged(i, "beforeRetry", req[i].count + 1)
    /\ req' = [req EXCEPT ![i].pc = "sending", ![i].count = @ + 1]
    /\ UNCHANGED << config, sent, found, last_request_time, now, calls,
                    obs, last, streak, tb >>

\* getRemoteMetadata is called: request() runs its preflight and issues the
\* HTTP request
ConcurrentGetRemoteMetadata(i) ==
    /\ Lowest(i)
    /\ calls < MaxCalls
    /\ StatusCheckNoArg
    /\ calls' = calls + 1
    /\ req' = [req EXCEPT ![i] = [IdleReq EXCEPT !.api = "cb", !.pc = "waiting"]]
    /\ hist' = [hist EXCEPT !.owner[i] = calls + 1]
    /\ UNCHANGED << config, sent, found, health, now, obs, last, streak, tb >>

\* req.on('response')
ConcurrentRequestOnResponse(i) ==
    /\ req[i].api = "cb" /\ req[i].pc = "waiting"
    /\ StatusCheck(req[i].statusCalled, TRUE)
    /\ hist' = Logged(i, "statusCheck(true)", 0)
    /\ req' = [req EXCEPT ![i].pc = "responded", ![i].statusCalled = TRUE]
    /\ UNCHANGED << config, sent, found, now, calls, obs, last, streak, tb >>

\* the body is complete
ConcurrentRequestComplete(i) ==
    /\ req[i].api = "cb" /\ req[i].pc = "responded"
    /\ req' = [req EXCEPT ![i] = IdleReq]
    /\ UNCHANGED << config, built, health, now, calls, obs, last, streak, tb >>

\* req.on('error'), before or after the response
ConcurrentRequestOnError(i) ==
    /\ req[i].api = "cb" /\ req[i].pc \in {"waiting", "responded"}
    /\ StatusCheck(req[i].statusCalled, FALSE)
    /\ hist' = IF req[i].statusCalled THEN hist
               ELSE Logged(i, "statusCheck(false)", 0)
    /\ req' = [req EXCEPT ![i] = IdleReq]
    /\ UNCHANGED << config, sent, found, now, calls, obs, last, streak, tb >>

InitConcurrent ==
    /\ max_fails \in 1..MaxFails
    /\ fail_timeout = 0
    /\ failed_requests = 0
    /\ last_request_time = Undefined
    /\ now = 0
    /\ offline_logs = 0
    /\ calls = 0
    /\ req = [i \in Slots |-> IdleReq]
    /\ obs = NoObs
    /\ last = NoLast
    /\ streak = [n |-> 0, t0 |-> 0]
    /\ tb = NoTarball
    /\ agent = FALSE
    /\ proxy = Undefined
    /\ uplink = DefaultUplink
    /\ constructed = TRUE
    /\ sent = NoSent
    /\ found = NoFound
    /\ hist = NoHist

NextConcurrent ==
    \/ \E i \in Slots : ConcurrentGetRemoteMetadataNext(i)
    \/ \E i \in Slots : ConcurrentNextOnRequest(i)
    \/ \E i \in Slots, s \in StatusCodes : ConcurrentNextOnResponse(i, s)
    \/ \E i \in Slots, c \in TransportErrors : ConcurrentNextOnError(i, c)
    \/ \E i \in Slots : ConcurrentNextBeforeRetry(i)
    \/ \E i \in Slots : ConcurrentGetRemoteMetadata(i)
    \/ \E i \in Slots : ConcurrentRequestOnResponse(i)
    \/ \E i \in Slots : ConcurrentRequestComplete(i)
    \/ \E i \in Slots : ConcurrentRequestOnError(i)

SpecConcurrent == InitConcurrent /\ [][NextConcurrent]_vars

-----------------------------------------------------------------------------
(***************************************************************************)
(* Properties of the health tracker and of the metadata fetch.             *)
(***************************************************************************)

IsHttpOutcome(outcome) == outcome.tag \in {"response", "HTTPError"}

\* C1: after max_fails consecutive metadata requests that failed (5xx or
\* transport error) inside the fail_timeout window, the preflight of the next
\* metadata request rejects it (UplinkOffline, nothing sent).
C1_BreakerTrips == obs.tripped => obs.rejected

\* C2: once the counter is at max_fails and fail_timeout has elapsed, the
\* next preflight lets the request through; if that request succeeds (2xx)
\* the counter is 0, and if it fails the counter is still at or above
\* max_fails and last_request_time is not older than the call.
C2_HalfOpen ==
    /\ obs.elapsed => ~obs.rejected
    /\ (last.probe >= 0 /\ IsHttpOutcome(last.final) /\ Is2xx(last.final.status))
          => failed_requests = 0
    /\ (last.probe >= 0 /\ IsFailureOutcome(last.final))
          => /\ failed_requests >= max_fails
             /\ last_request_time # Undefined
             /\ last_request_time[1] >= last.probe

\* C3: a metadata call made while the uplink is offline fails with
\* UplinkOffline, issues no HTTP request and leaves failed_requests and
\* last_request_time as they were; on the callback path the error is
\* delivered by one callback invocation on the next tick.
C3_CallWhileOffline ==
    (calls' = calls + 1 /\ OfflineCondition) =>
        /\ obs'.rejected
        /\ failed_requests' = failed_requests
        /\ last_request_time' = last_request_time
        /\ \A i \in Slots : req'[i].net = 0 \/ req'[i] = req[i]
        /\ obs'.api = "next" =>
              /\ last'.result = Failure("UplinkOffline")
              /\ last'.net = 0
              /\ req' = req
        /\ obs'.api = "cb" =>
              \E i \in Slots : Free(i) /\ req'[i].pc = "tick" /\ req'[i].net = 0

C3_TickDelivers ==
    (\E i \in Slots : req[i].pc = "tick") =>
        /\ failed_requests' = failed_requests
        /\ last_request_time' = last_request_time
        /\ last'.api = "cb"
        /\ last'.result = Failure("UplinkOffline")
        /\ last'.cbs = 1
        /\ last'.net = 0
        /\ \A i \in Slots : req'[i] = req[i] \/ (req[i].pc = "tick" /\ Free(i)')

C3_PreflightFailFast == [][C3_CallWhileOffline /\ C3_TickDelivers]_vars

C3_Witness ==
    /\ last.api = "cb"
    /\ last.result.kind = "UplinkOffline"
    /\ last.cbs = 1
    /\ failed_requests >= max_fails

\* C4: a preflight reports the uplink offline exactly when failed_requests
\* >= max_fails and |now - last_request_time| < fail_timeout; a client that
\* never issued a request is reported online.
C4_OfflinePredicate ==
    obs.api # "none" =>
        /\ obs.rejected <=> obs.offline
        /\ obs.fresh => ~obs.rejected

C4_Witness ==
    /\ obs.api = "cb"
    /\ obs.rejected
    /\ failed_requests = max_fails
    /\ max_fails >= 1

\* C5: after a metadata request whose final outcome is a 2xx response,
\* failed_requests is 0 (the request ran with no other request in flight).
C5_SuccessResets ==
    (last.alone /\ IsHttpOutcome(last.final) /\ Is2xx(last.final.status))
        => failed_requests = 0

\* C6: between two successes the 'host is now offline' warning is emitted
\* exactly once, when failed_requests first reaches max_fails: never twice,
\* and never missing while the counter is at or above max_fails.
C6_SingleOfflineLog ==
    max_fails >= 1 =>
        /\ offline_logs <= 1
        /\ failed_requests >= max_fails => offline_logs = 1

\* C7: getRemoteMetadataNext classifies the final upstream status s: 404 is
\* NotFoundUplink, 2xx returns (body, ETag), 304 is NotModifiedNoData, any
\* other status is BadStatusCode with remoteStatus = s; an error that is not
\* an HTTP status error is rethrown as it is.
C7_StatusClassification ==
    (last.api = "next" /\ last.final.tag # "none") =>
        LET s == last.final.status
            r == last.result
        IN  IF IsHttpOutcome(last.final)
            THEN /\ s = 404 => r = Failure("NotFoundUplink")
                 /\ (s >= 200 /\ s <= 299) =>
                        r.kind = "Manifest" /\ r.etag = last.final.etag
                 /\ s = 304 => r = Failure("NotModifiedNoData")
                 /\ (s # 404 /\ s # 304 /\ ~(s >= 200 /\ s <= 299)) =>
                        r.kind = "BadStatusCode" /\ r.remoteStatus = s
            ELSE r = Failure(last.final.code)

C7_Witness ==
    /\ last.api = "next"
    /\ last.final.status = 500
    /\ last.result.kind = "BadStatusCode"
    /\ last.net = 2

-----------------------------------------------------------------------------
(***************************************************************************)
(* Properties of the tarball fetch.                                        *)
(***************************************************************************)

\* how the finished tarball request ended, from what upstream did
TarballNotFound == tb.status = 404
TarballBadStatus == tb.status # 0 /\ tb.status # 404 /\ ~(tb.status >= 200 /\ tb.status <= 299)
TarballMismatch ==
    /\ tb.status >= 200 /\ tb.status <= 299
    /\ ~tb.transport
    /\ tb.cl # -1
    /\ tb.bytes # tb.cl
TarballFailed ==
    TarballNotFound \/ TarballBadStatus \/ tb.transport \/ TarballMismatch
TarballSucceeded ==
    /\ tb.status >= 200 /\ tb.status <= 299
    /\ ~tb.transport
    /\ tb.cl # -1 => tb.bytes = tb.cl

\* C9: a tarball request that ends in failure (404, other non-2xx status,
\* transport error, content-length mismatch) emits 'error' exactly once on
\* the returned stream, and one that succeeds emits none.
C9_ErrorExactlyOnce ==
    (tb.pc = "done" /\ tb.net > 0) =>
        /\ TarballFailed => tb.errors = 1
        /\ TarballSucceeded => tb.errors = 0

\* C10: when a 2xx tarball response that advertised Content-Length L has
\* ended, the returned stream has emitted ContentMismatch if the bytes
\* observed differ from L, and has not if they equal L.
C10_ContentLengthVerified ==
    (tb.pc = "done" /\ tb.status >= 200 /\ tb.status <= 299 /\ tb.cl # -1
        /\ ~tb.transport) =>
        ("ContentMismatch" \in tb.errs <=> tb.bytes # tb.cl)

\* C11: after the caller aborted or destroyed the stream returned by
\* fetchTarball while the request was in flight, no further body byte is
\* read from upstream.
C11_AbortCancels == tb.abortedAt # -1 => tb.bytes = tb.abortedAt

-----------------------------------------------------------------------------
(***************************************************************************)
(* Properties of the header builder.                                       *)
(***************************************************************************)

\* a is the end of b / a is the beginning of b
EndsWith(b, a) ==
    Len(a) <= Len(b) /\ SubSeq(b, Len(b) - Len(a) + 1, Len(b)) = a
BeginsWith(b, a) ==
    Len(a) <= Len(b) /\ SubSeq(b, 1, Len(a)) = a

Built == sent.api # "none" /\ sent.error = ""

\* C12: every request built carries a Via header that ends with
\* '1.1 <server_id> (Verdaccio)' and, when a Via came in, begins with that
\* value followed by ', ', whatever the caller's headers and config.headers.
C12_ViaInvariant ==
    Built =>
        /\ EndsWith(sent.headers["via"], ViaSelf)
        /\ sent.via_in # NoValue =>
              /\ BeginsWith(sent.headers["via"], sent.via_in)
              /\ Len(sent.headers["via"]) > Len(sent.via_in)

\* C13: a client with an explicit proxy (agent set) sends no request with an
\* X-Forwarded-For header, whatever the caller's headers and config.headers;
\* a client without one has X-Forwarded-For added by the header builder.
C13_ForwardedForSuppressed ==
    Built =>
        /\ agent => sent.headers["x-forwarded-for"] = NoValue
        /\ ~agent => sent.headers["x-forwarded-for"] # NoValue

\* C14: the headers built carry an Authorization made by the client only when
\* the uplink has an auth config and the caller supplied none; the auth step
\* never replaces the caller's Authorization, and adds none when there is
\* neither an auth config nor a caller value.
C14_AuthorizationInjection ==
    Built =>
        LET given == sent.caller["authorization"]
        IN  /\ (sent.base["authorization"] = BuiltToken
                   \/ sent.headers["authorization"] = BuiltToken)
                  => (uplink.auth # "none" /\ given = NoValue)
            /\ given # NoValue => sent.base["authorization"] = given
            /\ (uplink.auth = "none" /\ given = NoValue)
                  => sent.base["authorization"] = NoValue

C14_Witness ==
    /\ Built
    /\ sent.api = "getRemoteMetadataNext"
    /\ uplink.auth = "token"
    /\ sent.caller["authorization"] # NoValue
    /\ sent.headers["authorization"] = sent.caller["authorization"]

\* C15: when options.etag is given, the headers sent by getRemoteMetadataNext,
\* fetchTarballNext and getRemoteMetadata have If-None-Match equal to the
\* etag and Accept equal to 'application/json;', whatever the caller's
\* headers and config.headers.
C15_ConditionalClamp ==
    (Built /\ sent.etag # NoValue) =>
        /\ sent.headers["if-none-match"] = sent.etag
        /\ sent.headers["accept"] = contentTypeAccept

-----------------------------------------------------------------------------
(***************************************************************************)
(* Properties of the proxy selector and of the constructor.                *)
(***************************************************************************)

\* C16: _setupProxy clears the configured proxy exactly when the
\* dot-normalised host name ends with a dot-normalised no_proxy entry; an
\* entry that is not a suffix (a longer one included) never clears it.
C16_NoProxySuffix ==
    (constructed /\ uplink.http_proxy # Undefined) =>
        (proxy = Undefined <=>
            \E i \in 1..Len(uplink.no_proxy) :
                EndsWith(DotNormalised(uplink.hostname),
                         DotNormalised(uplink.no_proxy[i])))

\* C17: a constructed client has max_fails >= 1 and fail_timeout >= 0, so a
\* preflight that reports the uplink offline finds at least one failed
\* request counted.
C17_ConfigValidated ==
    [][(obs' # obs /\ obs'.rejected) =>
            /\ max_fails >= 1
            /\ fail_timeout >= 0
            /\ failed_requests >= 1]_vars

-----------------------------------------------------------------------------
(***************************************************************************)
(* Properties of the search streamer.                                      *)
(***************************************************************************)

\* C18: search() fails with BadStatusCode, returning no stream, for every
\* status of 400 or above; for any other response the returned stream
\* yields the elements of the body's 'objects' array, in order, and ends.
C18_SearchResults ==
    /\ (found.status >= HTTP_BAD_REQUEST) =>
          /\ found.pc = "failed"
          /\ found.error = "BadStatusCode"
          /\ found.yielded = << >>
    /\ found.pc = "streaming" =>
          \E n \in 0..Len(found.objects) :
              found.yielded = SubSeq(found.objects, 1, n)
    /\ found.ended => found.yielded = found.objects

-----------------------------------------------------------------------------
(***************************************************************************)
(* Properties of the tarball fetchers with respect to the health tracker.  *)
(***************************************************************************)

\* C19: a tarball fetch called while the uplink is offline is rejected by
\* the preflight (UplinkOffline follows) and no network request is issued.
C19_PreflightEverywhere ==
    [][(calls' = calls + 1 /\ max_fails >= 1 /\ OfflineCondition) =>
            /\ tb'.pc = "tick"
            /\ tb'.net = 0]_vars

\* C20: every attempt of a tarball fetch updates the health state with its
\* outcome: a transport failure before any response counts one more failed
\* request, a 2xx response resets the counter, and both refresh
\* last_request_time.
C20_OutcomeReachesHealth ==
    [][/\ (tb.pc = "waiting" /\ tb'.transport) =>
             /\ failed_requests' = failed_requests + 1
             /\ last_request_time' = << now >>
       /\ (tb.pc = "waiting" /\ tb'.pc = "streaming" /\ Is2xx(tb'.status)) =>
             /\ failed_requests' = 0
             /\ last_request_time' = << now >>]_vars

-----------------------------------------------------------------------------
(***************************************************************************)
(* Properties of the health state over the life of a metadata request.     *)
(***************************************************************************)

\* C21: the step that puts a metadata request on the wire, on the promise
\* path or on the callback path, sets last_request_time to the current
\* time; a call rejected by the preflight leaves it as it was.
C21_IssueSetsRequestTime ==
    [][/\ \A i \in Slots :
             req'[i].net = req[i].net + 1 => last_request_time' = << now >>
       /\ (calls' = calls + 1 /\ obs'.rejected) =>
             last_request_time' = last_request_time]_vars

-----------------------------------------------------------------------------
(***************************************************************************)
(* Properties of the order of events on the stream a tarball fetch         *)
(* returns.                                                                *)
(***************************************************************************)

\* C22: no body byte is written to the returned stream before the response
\* status is classified: after a 404 or another non-2xx response the error
\* is emitted and no body byte is ever written, and after a 2xx response
\* with Content-Length the content-length event precedes the first byte.
C22_StatusBeforeBody ==
    /\ tb.written > 0 => tb.status # 0
    /\ (tb.status # 0 /\ ~Is2xx(tb.status)) =>
          /\ tb.errors >= 1
          /\ tb.written = 0
    /\ (Is2xx(tb.status) /\ tb.cl # -1 /\ tb.written > 0) => tb.clev = 1

C22_Witness ==
    /\ tb.status = HTTP_NOT_FOUND
    /\ tb.bytes > 0
    /\ tb.errors = 1
    /\ tb.written = 0

-----------------------------------------------------------------------------
(***************************************************************************)
(* Properties of the moment an operation returns.                          *)
(***************************************************************************)

\* C23: search() returns its stream once the response headers are in and
\* before the response body has been read to its end.
C23_SearchReturnsBeforeBody ==
    [][(found'.returned /\ ~found.returned) =>
            found'.body = "headers"]_vars

-----------------------------------------------------------------------------
(***************************************************************************)
(* Properties of the health updates of concurrent requests.                *)
(***************************************************************************)

\* what one logged update does to a counter value n
ApplyUpdate(u, n) ==
    CASE u.update = "afterResponse(2xx)" -> IF n >= max_fails THEN 0 ELSE n
      [] u.update = "beforeRetry" -> u.count
      [] u.update = "statusCheck(true)" -> 0
      [] u.update = "statusCheck(false)" -> n + 1

RECURSIVE ApplyUpdates(_, _)
ApplyUpdates(us, n) ==
    IF us = << >> THEN n ELSE ApplyUpdates(Tail(us), ApplyUpdate(Head(us), n))

\* the updates of call id, in the order it made them
UpdatesOf(id) == SelectSeq(hist.log, LAMBDA u : u.id = id)

\* the counter after the calls ran one after another in the given order,
\* from the counter of a fresh client
RECURSIVE Serial(_, _, _)
Serial(order, k, n) ==
    IF k > Len(order) THEN n
    ELSE Serial(order, k + 1, ApplyUpdates(UpdatesOf(order[k]), n))

SerialOrders == { o \in [1..calls -> 1..calls] : \A a, b \in 1..calls : o[a] = o[b] => a = b }

\* the log replayed in the order the updates were made gives the counter
LogIsFaithful == ApplyUpdates(hist.log, 0) = failed_requests

\* C24: whenever no request is in flight, failed_requests equals the value
\* the same requests, with the same updates, would have left had they run
\* one after another in some order.
C24_Linearisable ==
    (\A i \in Slots : Free(i)) =>
        \E o \in SerialOrders : Serial(o, 1, 0) = failed_requests

-----------------------------------------------------------------------------
(***************************************************************************)
(* Properties of the failure counter.                                      *)
(***************************************************************************)

\* the step delivers a 2xx response to a metadata request
SuccessfulResponseStep ==
    \E i \in Slots :
        \/ /\ req[i].api = "next" /\ req[i].pc = "waiting"
           /\ last'.final.tag = "response"
           /\ Is2xx(last'.final.status)
        \/ /\ req[i].api = "cb" /\ req[i].pc = "waiting"
           /\ req'[i].pc = "responded"
           /\ Is2xx(req'[i].res.status)

\* C25: failed_requests is never negative, and a step lowers it only by
\* resetting it to 0 on a 2xx response; no retry and no failure lowers it.
C25_MonotoneBetweenSuccesses ==
    [][/\ failed_requests' >= 0
       /\ failed_requests' < failed_requests =>
             /\ failed_requests' = 0
             /\ SuccessfulResponseStep]_vars

-----------------------------------------------------------------------------
(***************************************************************************)
(* Properties of the health updates of the callback path.                  *)
(***************************************************************************)

\* C26: a request issued by request() updates the health state at most
\* once: its first 'response' or 'error' event calls _statusCheck(true) or
\* _statusCheck(false), and a later event of the same request changes
\* neither failed_requests nor last_request_time.
C26_AtMostOneUpdate ==
    [][\A i \in Slots :
          /\ (req[i].api = "cb" /\ req[i].statusCalled /\ req'[i] # req[i]) =>
                /\ failed_requests' = failed_requests
                /\ last_request_time' = last_request_time
          /\ (req[i].api = "cb" /\ req[i].pc = "waiting"
                /\ req'[i].pc = "responded") =>
                /\ failed_requests' = 0
                /\ last_request_time' = << now >>
          /\ (req[i].api = "cb" /\ req[i].pc = "waiting"
                /\ req'[i].pc = "idle") =>
                /\ failed_requests' = failed_requests + 1
                /\ last_request_time' = << now >>]_vars

C26_Witness ==
    /\ last.api = "cb"
    /\ last.final.tag = "error"
    /\ last.alone
    /\ failed_requests = 0

\* C27: on the callback path a response of any status, 4xx and 5xx
\* included, sets failed_requests to 0, and the only event of a request
\* that raises the counter is an 'error' with no response before it, which
\* raises it by exactly 1.
C27_TransportDrivesHealth ==
    [][\A i \in Slots :
          /\ (req[i].api = "cb" /\ req[i].pc = "waiting"
                /\ req'[i].pc = "responded") =>
                /\ req'[i].res.status \in StatusCodes
                /\ failed_requests' = 0
          /\ (req[i].api = "cb" /\ req'[i] # req[i]
                /\ failed_requests' # failed_requests
                /\ req'[i].pc # "responded") =>
                /\ req[i].pc = "waiting"
                /\ req[i].statusCalled = FALSE
                /\ req'[i].pc = "idle"
                /\ failed_requests' = failed_requests + 1]_vars

C27_Witness ==
    \E i \in Slots :
        /\ req[i].api = "cb"
        /\ req[i].pc = "responded"
        /\ req[i].res.status = 500
        /\ streak.n >= 1
        /\ failed_requests = 0
=============================================================================
